---- MODULE Spec2Model ----
(***************************************************************************)
(* Model of the FastDFS client of client.go: the pool registry (the        *)
(* goroutine started by init(), the two package-level channels and the     *)
(* address -> pool map) and the dispatch operations of FastDFSClient that   *)
(* reach it through getStoragePool.                                         *)
(***************************************************************************)
EXTENDS Naturals, Sequences, FiniteSets, TLC

(* ---------------------------- bounds ----------------------------------- *)
\* goroutines that use the client
NumCallers == 2
\* calls the goroutines make, all together
MaxCalls == 2
\* storage addresses the tracker can hand out
NumAddrs == 2

(* ------------------------ program constants ---------------------------- *)
\* make(chan *storagePool, 1)
StoragePoolChanCap == 1
\* make(chan interface{}, 1)
FetchStoragePoolChanCap == 1
\* getStoragePool: minConns: 10, maxConns: 150
MinConns == 10
MaxConns == 150

Procs == 1 .. NumCallers
\* the goroutine whose operations are followed from their first line; those of the
\* other goroutines are followed from their call of getStoragePool on, the part
\* of an operation that touches state shared between goroutines
Dispatchers == {1}
Addrs == 1 .. NumAddrs

\* the nil pointer / nil error / nil interface value
Nil == [kind |-> "nil"]
\* no storage address yet
NoAddr == 0
\* no operation: the goroutine calls getStoragePool directly
NoOp == "none"

VARIABLES
    storagePoolChan,       \* chan *storagePool, buffered
    storagePoolMap,        \* map[string]*ConnectionPool
    fetchStoragePoolChan,  \* chan interface{}, buffered
    wpc,                   \* where the registry goroutine is
    wspd,                  \* the request the registry goroutine holds (spd)
    wres,                  \* the value it is about to send on fetchStoragePoolChan
    pc,                    \* where each calling goroutine is
    ipAddr,                \* the argument of its getStoragePool call
    got,                   \* what its getStoragePool call returned: <<pool, err>>
    op,                    \* the dispatch operation it runs
    call,                  \* that operation's arguments and locals
    ret,                   \* what the operation returned: <<value, err>>
    log,                   \* history: the steps of the current operation, in order
    calls,                 \* history: calls made so far by each goroutine
    attempts,              \* history: NewConnectionPool calls made by the registry, per address
    created,               \* history: every pool NewConnectionPool has returned to the registry
    answer,                \* history: what the registry produced for each goroutine's request
    conc,                  \* history: goroutines whose getStoragePool call overlapped this one
    seen                   \* history: attempts already made for its address when the call began

regvars == <<storagePoolChan, storagePoolMap, fetchStoragePoolChan, wpc, wspd, wres>>
callvars == <<pc, ipAddr, got, op, call, ret, log>>
histvars == <<calls, attempts, created, answer, conc, seen>>
vars == <<regvars, callvars, histvars>>

(* ------------------------------ values --------------------------------- *)
\* the storagePool request struct; from and n are history (which call sent it)
StoragePoolReq(a, c) ==
    [addr |-> a, minConns |-> MinConns, maxConns |-> MaxConns, from |-> c, n |-> calls[c]]

\* history: v is what the registry produced for request spd
Answered(spd, v) ==
    [c \in Procs |-> IF c = spd.from /\ calls[c] = spd.n THEN v ELSE answer[c]]

\* NewConnectionPool([]string{ipAddr}, min, max): a new pool, or a connectivity
\* error; n numbers the construction, so every call yields a distinct instance
NewConnectionPool(a, n, ok) ==
    IF ok THEN [sp |-> [kind |-> "pool", addr |-> a, id |-> n], err |-> Nil]
          ELSE [sp |-> Nil, err |-> [kind |-> "err", src |-> "NewConnectionPool", addr |-> a, id |-> n]]

\* errors.New("none")
ErrNone == [kind |-> "err", src |-> "none", addr |-> NoAddr, id |-> 0]

IsErr(v) == v.kind = "err"
IsPool(v) == v.kind = "pool"

Init ==
    /\ storagePoolChan = <<>>
    /\ storagePoolMap = [a \in Addrs |-> Nil]
    /\ fetchStoragePoolChan = <<>>
    /\ wpc = "select"
    /\ wspd = Nil
    /\ wres = Nil
    /\ pc = [c \in Procs |-> "idle"]
    /\ ipAddr = [c \in Procs |-> NoAddr]
    /\ got = [c \in Procs |-> <<Nil, Nil>>]
    /\ op = [c \in Procs |-> NoOp]
    /\ call = [c \in Procs |-> Nil]
    /\ ret = [c \in Procs |-> <<Nil, Nil>>]
    /\ log = [c \in Procs |-> <<>>]
    /\ calls = [c \in Procs |-> 0]
    /\ attempts = [a \in Addrs |-> 0]
    /\ created = {}
    /\ answer = [c \in Procs |-> Nil]
    /\ conc = [c \in Procs |-> {}]
    /\ seen = [c \in Procs |-> 0]

\* history: the calls made so far by goroutines 1 .. n
RECURSIVE CallsUpTo(_)
CallsUpTo(n) == IF n = 0 THEN 0 ELSE calls[n] + CallsUpTo(n - 1)

\* the bound on calls leaves room for one more
MayCall == CallsUpTo(NumCallers) < MaxCalls

(* ----------------------- the registry goroutine ------------------------ *)
\* mutant: the lookup never finds the address
MapHasNever(a) == FALSE

\* sp, ok := storagePoolMap[ipAddr]
MapHas(a) == storagePoolMap[a] # Nil

\* case spd := <-storagePoolChan: the lookup, and the hit branch up to its send.
\* The other case of the select, <-quit, is never ready: quit is declared and
\* never made, and a receive from a nil channel blocks for ever
WorkerSelect ==
    /\ wpc = "select"
    /\ Len(storagePoolChan) > 0
    /\ LET spd == Head(storagePoolChan) IN
        /\ storagePoolChan' = Tail(storagePoolChan)
        /\ IF MapHas(spd.addr)
             THEN /\ wres' = [val |-> storagePoolMap[spd.addr], for |-> spd.from]
                  /\ answer' = Answered(spd, storagePoolMap[spd.addr])
                  /\ wspd' = Nil
                  /\ wpc' = "send"
             ELSE /\ wspd' = spd
                  /\ wpc' = "construct"
                  /\ UNCHANGED <<wres, answer>>
    /\ UNCHANGED <<storagePoolMap, fetchStoragePoolChan>>
    /\ UNCHANGED <<callvars, calls, attempts, created, conc, seen>>

\* mutant: a failed construction is stored too, so the failure is remembered
RecordSticky(a, r) ==
    [storagePoolMap EXCEPT ![a] = IF r.err # Nil THEN r.err ELSE r.sp]

\* mutant: recording a new pool evicts the pools of the other addresses
RecordEvict(a, r) ==
    IF r.err # Nil THEN storagePoolMap
    ELSE [b \in Addrs |-> IF b = a THEN r.sp ELSE Nil]

\* what the miss branch stores in the map once NewConnectionPool has returned r
Record(a, r) ==
    IF r.err # Nil THEN storagePoolMap ELSE [storagePoolMap EXCEPT ![a] = r.sp]

\* mutant: the registry goes back to its select before the reply is sent
WorkerConstructAsync ==
    /\ wpc = "construct"
    /\ \E ok \in BOOLEAN :
        LET a == wspd.addr
            r == NewConnectionPool(a, attempts[a] + 1, ok)
            v == IF r.err # Nil THEN r.err ELSE r.sp
        IN  /\ attempts' = [attempts EXCEPT ![a] = @ + 1]
            /\ storagePoolMap' = Record(a, r)
            /\ created' = IF r.err # Nil THEN created ELSE created \cup {r.sp}
            /\ wres' = [val |-> v, for |-> wspd.from]
            /\ answer' = Answered(wspd, v)
    /\ wspd' = Nil
    /\ wpc' = "select"
    /\ UNCHANGED <<storagePoolChan, fetchStoragePoolChan>>
    /\ UNCHANGED <<callvars, calls, conc, seen>>

\* the miss branch: NewConnectionPool returns, the map is written on success
WorkerConstruct ==
    /\ wpc = "construct"
    /\ \E ok \in BOOLEAN :
        LET a == wspd.addr
            r == NewConnectionPool(a, attempts[a] + 1, ok)
            v == IF r.err # Nil THEN r.err ELSE r.sp
        IN  /\ attempts' = [attempts EXCEPT ![a] = @ + 1]
            /\ storagePoolMap' = Record(a, r)
            /\ created' = IF r.err # Nil THEN created ELSE created \cup {r.sp}
            /\ wres' = [val |-> v, for |-> wspd.from]
            /\ answer' = Answered(wspd, v)
    /\ wspd' = Nil
    /\ wpc' = "send"
    /\ UNCHANGED <<storagePoolChan, fetchStoragePoolChan>>
    /\ UNCHANGED <<callvars, calls, conc, seen>>

\* mutant: the reply is dropped instead of sent
WorkerSendDrop ==
    /\ wpc = "send"
    /\ wres' = Nil
    /\ wpc' = "select"
    /\ UNCHANGED <<storagePoolChan, storagePoolMap, fetchStoragePoolChan, wspd>>
    /\ UNCHANGED <<callvars, histvars>>

\* fetchStoragePoolChan <- sp / err: blocks while the buffer is full
WorkerSend ==
    /\ wpc = "send"
    /\ Len(fetchStoragePoolChan) < FetchStoragePoolChanCap
    /\ fetchStoragePoolChan' = Append(fetchStoragePoolChan, wres)
    /\ wres' = Nil
    /\ wpc' = "select"
    /\ UNCHANGED <<storagePoolChan, storagePoolMap, wspd>>
    /\ UNCHANGED <<callvars, histvars>>

(* --------------------------- getStoragePool ---------------------------- *)
InGetStoragePool(c) == pc[c] \in {"send", "recv"}

\* entry of getStoragePool(a) by goroutine c: the history of the call starts
Enter(c, a) ==
    /\ ipAddr' = [ipAddr EXCEPT ![c] = a]
    /\ got' = [got EXCEPT ![c] = <<Nil, Nil>>]
    /\ answer' = [answer EXCEPT ![c] = Nil]
    /\ seen' = [seen EXCEPT ![c] = IF IsPool(storagePoolMap[a]) THEN 0 ELSE attempts[a]]
    /\ conc' = [d \in Procs |->
                  IF d = c THEN {c} \cup {e \in Procs : InGetStoragePool(e)}
                  ELSE IF InGetStoragePool(d) THEN conc[d] \cup {c}
                  ELSE conc[d]]

\* a goroutine calls getStoragePool(a)
GetStoragePool(c, a) ==
    /\ pc[c] \in {"idle", "got"}
    /\ op[c] = NoOp
    /\ MayCall
    /\ calls' = [calls EXCEPT ![c] = @ + 1]
    /\ Enter(c, a)
    /\ pc' = [pc EXCEPT ![c] = "send"]
    /\ UNCHANGED <<regvars, op, call, ret, log, attempts, created>>

\* storagePoolChan <- spd: blocks while the buffer is full
SendRequest(c) ==
    /\ pc[c] = "send"
    /\ Len(storagePoolChan) < StoragePoolChanCap
    /\ storagePoolChan' = Append(storagePoolChan, StoragePoolReq(ipAddr[c], c))
    /\ pc' = [pc EXCEPT ![c] = "recv"]
    /\ UNCHANGED <<storagePoolMap, fetchStoragePoolChan, wpc, wspd, wres>>
    /\ UNCHANGED <<ipAddr, got, op, call, ret, log, histvars>>

\* mutant: every reply falls through the type switch
ReturnedNone(result) == <<Nil, ErrNone>>

\* the type switch on the value received from fetchStoragePoolChan
Returned(result) ==
    IF IsErr(result) THEN <<Nil, result>>
    ELSE IF IsPool(result) THEN <<result, Nil>>
    ELSE <<Nil, ErrNone>>

\* mutant: the reply is read and left in the channel
RecvReplyPeek(c) ==
    /\ pc[c] = "recv"
    /\ Len(fetchStoragePoolChan) > 0
    /\ got' = [got EXCEPT ![c] = Returned(Head(fetchStoragePoolChan).val)]
    /\ pc' = [pc EXCEPT ![c] = "got"]
    /\ log' = [log EXCEPT ![c] = IF op[c] = NoOp THEN @ ELSE Append(@, "getStoragePool")]
    /\ UNCHANGED <<storagePoolChan, storagePoolMap, fetchStoragePoolChan, wpc, wspd, wres>>
    /\ UNCHANGED <<ipAddr, op, call, ret, histvars>>

\* case result = <-fetchStoragePoolChan, and the return
RecvReply(c) ==
    /\ pc[c] = "recv"
    /\ Len(fetchStoragePoolChan) > 0
    /\ got' = [got EXCEPT ![c] = Returned(Head(fetchStoragePoolChan).val)]
    /\ fetchStoragePoolChan' = Tail(fetchStoragePoolChan)
    /\ pc' = [pc EXCEPT ![c] = "got"]
    /\ log' = [log EXCEPT ![c] = IF op[c] = NoOp THEN @ ELSE Append(@, "getStoragePool")]
    /\ UNCHANGED <<storagePoolChan, storagePoolMap, wpc, wspd, wres>>
    /\ UNCHANGED <<ipAddr, op, call, ret, histvars>>

(* -------------------------------- Close -------------------------------- *)
\* var quit chan bool: declared and never made, so it is the nil channel
quit == Nil

\* func Close() { quit <- true }: a send on a nil channel blocks for ever, so the
\* goroutine that calls Close stays at the send and Close has no step that returns
Close(c) ==
    /\ pc[c] \in {"idle", "got"}
    /\ op[c] = NoOp
    /\ quit = Nil
    /\ pc' = [pc EXCEPT ![c] = "close"]
    /\ UNCHANGED <<regvars, ipAddr, got, op, call, ret, log, histvars>>

(* ------------------------ dispatch operations -------------------------- *)
\* the results the local file check can give: nil, or an error with a message
FileCheckResults ==
    {Nil, [kind |-> "err", msg |-> "no such file"], [kind |-> "err", msg |-> "is a directory"]}

\* remote file identifiers, as strings of characters; "/" is the separator
RemoteFileIds ==
    { <<>>, <<"g">>, <<"g", "/">>, <<"/", "f">>, <<"g", "/", "f", "/", "x">> }

\* what a tracker query can answer: a storage descriptor, or an error
TrackerErr == [kind |-> "err", src |-> "tracker"]
TrackerResults ==
    {[storeServ |-> [ipAddr |-> a], err |-> Nil] : a \in Addrs}
        \cup {[storeServ |-> Nil, err |-> TrackerErr]}

\* position of the first separator of s, 0 when there is none
FirstSep(s) ==
    IF \E i \in 1 .. Len(s) : s[i] = "/"
      THEN CHOOSE i \in 1 .. Len(s) : s[i] = "/" /\ \A j \in 1 .. (i - 1) : s[j] # "/"
      ELSE 0

FormatErr == [kind |-> "err", src |-> "splitRemoteFileId"]

\* splitRemoteFileId: "<group>/<remoteFilename>", split on the first separator
\* into exactly two non-empty parts; anything else is a format error
SplitRemoteFileId(s) ==
    LET i == FirstSep(s) IN
    IF i = 0 \/ i = 1 \/ i = Len(s)
      THEN [parts |-> <<>>, err |-> FormatErr]
      ELSE [parts |-> <<SubSeq(s, 1, i - 1), SubSeq(s, i + 1, Len(s))>>, err |-> Nil]

\* if err := fdfsCheckFile(filename); err != nil
CheckFailed(f) == f # Nil

\* mutant: the check's error is returned as it is
UploadingBare(f) == [kind |-> "err", msg |-> f.msg]

\* errors.New(err.Error() + "(uploading)")
Uploading(f) == [kind |-> "err", msg |-> f.msg \o "(uploading)"]

\* if err != nil || len(tmp) != 2
SplitFailed(tmp) == tmp.err # Nil \/ Len(tmp.parts) # 2

\* mutant: the early return reports no error
FormatReturnNil(tmp) == <<Nil, Nil>>

\* return nil, err   (DeleteFile: return err)
FormatReturn(tmp) == <<Nil, tmp.err>>

\* if err != nil, after the tracker query
TrackerFailed(t) == t.err # Nil

\* mutant: the group and the file name change places
QuerySwapped(k, group, file) == [kind |-> k, group |-> file, file |-> group]

\* the tracker query an operation makes
Query(k, group, file) == [kind |-> k, group |-> group, file |-> file]

\* the arguments and locals an operation keeps
Call(f, id, q, t) == [fileErr |-> f, remoteFileId |-> id, query |-> q, storeServ |-> t.storeServ]

NoTracker == [storeServ |-> Nil, err |-> Nil]

\* a dispatching goroutine is free to start an operation
CanBegin(c) ==
    /\ pc[c] \in {"idle", "done"}
    /\ MayCall

\* the operation o returns r before it reaches getStoragePool
Return(c, o, cl, r, steps) ==
    /\ pc' = [pc EXCEPT ![c] = "done"]
    /\ op' = [op EXCEPT ![c] = o]
    /\ call' = [call EXCEPT ![c] = cl]
    /\ ret' = [ret EXCEPT ![c] = r]
    /\ log' = [log EXCEPT ![c] = steps]
    /\ ipAddr' = [ipAddr EXCEPT ![c] = NoAddr]
    /\ got' = [got EXCEPT ![c] = <<Nil, Nil>>]
    /\ calls' = [calls EXCEPT ![c] = @ + 1]
    /\ UNCHANGED <<regvars, attempts, created, answer, conc, seen>>

\* the operation o calls this.getStoragePool(storeServ.ipAddr)
Lookup(c, o, cl, steps) ==
    /\ pc' = [pc EXCEPT ![c] = "send"]
    /\ op' = [op EXCEPT ![c] = o]
    /\ call' = [call EXCEPT ![c] = cl]
    /\ ret' = [ret EXCEPT ![c] = <<Nil, Nil>>]
    /\ log' = [log EXCEPT ![c] = steps]
    /\ Enter(c, cl.storeServ.ipAddr)
    /\ calls' = [calls EXCEPT ![c] = @ + 1]
    /\ UNCHANGED <<regvars, attempts, created>>

UploadByFilename(c) ==
    /\ CanBegin(c)
    /\ \E f \in FileCheckResults :
        LET o == "UploadByFilename"
            q == Query("trackerQueryStorageStorWithoutGroup", <<>>, <<>>)
        IN  IF CheckFailed(f)
              THEN Return(c, o, Call(f, <<>>, Nil, NoTracker), <<Nil, Uploading(f)>>,
                          <<"fdfsCheckFile">>)
            ELSE \E t \in TrackerResults :
                IF TrackerFailed(t)
                  THEN Return(c, o, Call(f, <<>>, q, t), <<Nil, t.err>>,
                              <<"fdfsCheckFile", "tracker">>)
                ELSE Lookup(c, o, Call(f, <<>>, q, t), <<"fdfsCheckFile", "tracker">>)

\* mutant: the tracker's error is swallowed
UploadByBufferSwallow(c) ==
    /\ CanBegin(c)
    /\ \E t \in TrackerResults :
        LET o == "UploadByBuffer"
            q == Query("trackerQueryStorageStorWithoutGroup", <<>>, <<>>)
        IN  IF TrackerFailed(t)
              THEN Return(c, o, Call(Nil, <<>>, q, t), <<Nil, Nil>>, <<"tracker">>)
            ELSE Lookup(c, o, Call(Nil, <<>>, q, t), <<"tracker">>)

UploadByBuffer(c) ==
    /\ CanBegin(c)
    /\ \E t \in TrackerResults :
        LET o == "UploadByBuffer"
            q == Query("trackerQueryStorageStorWithoutGroup", <<>>, <<>>)
        IN  IF TrackerFailed(t)
              THEN Return(c, o, Call(Nil, <<>>, q, t), <<Nil, t.err>>, <<"tracker">>)
            ELSE Lookup(c, o, Call(Nil, <<>>, q, t), <<"tracker">>)

UploadSlaveByFilename(c) ==
    /\ CanBegin(c)
    /\ \E id \in RemoteFileIds, f \in FileCheckResults :
        LET o == "UploadSlaveByFilename"
            tmp == SplitRemoteFileId(id)
            q == Query("trackerQueryStorageStorWithGroup", tmp.parts[1], <<>>)
        IN  IF CheckFailed(f)
              THEN Return(c, o, Call(f, id, Nil, NoTracker), <<Nil, Uploading(f)>>,
                          <<"fdfsCheckFile">>)
            ELSE IF SplitFailed(tmp)
              THEN Return(c, o, Call(f, id, Nil, NoTracker), FormatReturn(tmp),
                          <<"fdfsCheckFile", "splitRemoteFileId">>)
            ELSE \E t \in TrackerResults :
                IF TrackerFailed(t)
                  THEN Return(c, o, Call(f, id, q, t), <<Nil, t.err>>,
                              <<"fdfsCheckFile", "splitRemoteFileId", "tracker">>)
                ELSE Lookup(c, o, Call(f, id, q, t),
                            <<"fdfsCheckFile", "splitRemoteFileId", "tracker">>)

UploadSlaveByBuffer(c) ==
    /\ CanBegin(c)
    /\ \E id \in RemoteFileIds :
        LET o == "UploadSlaveByBuffer"
            tmp == SplitRemoteFileId(id)
            q == Query("trackerQueryStorageStorWithGroup", tmp.parts[1], <<>>)
        IN  IF SplitFailed(tmp)
              THEN Return(c, o, Call(Nil, id, Nil, NoTracker), FormatReturn(tmp),
                          <<"splitRemoteFileId">>)
            ELSE \E t \in TrackerResults :
                IF TrackerFailed(t)
                  THEN Return(c, o, Call(Nil, id, q, t), <<Nil, t.err>>,
                              <<"splitRemoteFileId", "tracker">>)
                ELSE Lookup(c, o, Call(Nil, id, q, t), <<"splitRemoteFileId", "tracker">>)

UploadAppenderByFilename(c) ==
    /\ CanBegin(c)
    /\ \E f \in FileCheckResults :
        LET o == "UploadAppenderByFilename"
            q == Query("trackerQueryStorageStorWithoutGroup", <<>>, <<>>)
        IN  IF CheckFailed(f)
              THEN Return(c, o, Call(f, <<>>, Nil, NoTracker), <<Nil, Uploading(f)>>,
                          <<"fdfsCheckFile">>)
            ELSE \E t \in TrackerResults :
                IF TrackerFailed(t)
                  THEN Return(c, o, Call(f, <<>>, q, t), <<Nil, t.err>>,
                              <<"fdfsCheckFile", "tracker">>)
                ELSE Lookup(c, o, Call(f, <<>>, q, t), <<"fdfsCheckFile", "tracker">>)

UploadAppenderByBuffer(c) ==
    /\ CanBegin(c)
    /\ \E t \in TrackerResults :
        LET o == "UploadAppenderByBuffer"
            q == Query("trackerQueryStorageStorWithoutGroup", <<>>, <<>>)
        IN  IF TrackerFailed(t)
              THEN Return(c, o, Call(Nil, <<>>, q, t), <<Nil, t.err>>, <<"tracker">>)
            ELSE Lookup(c, o, Call(Nil, <<>>, q, t), <<"tracker">>)

\* mutant: the tracker is asked before the identifier is parsed
DeleteFileTrackerFirst(c) ==
    /\ CanBegin(c)
    /\ \E id \in RemoteFileIds, t \in TrackerResults :
        LET o == "DeleteFile"
            tmp == SplitRemoteFileId(id)
            q == Query("trackerQueryStorageUpdate", id, <<>>)
        IN  IF TrackerFailed(t)
              THEN Return(c, o, Call(Nil, id, q, t), <<Nil, t.err>>, <<"tracker">>)
            ELSE IF SplitFailed(tmp)
              THEN Return(c, o, Call(Nil, id, q, t), FormatReturn(tmp),
                          <<"tracker", "splitRemoteFileId">>)
            ELSE Lookup(c, o, Call(Nil, id, q, t), <<"tracker", "splitRemoteFileId">>)

DeleteFile(c) ==
    /\ CanBegin(c)
    /\ \E id \in RemoteFileIds :
        LET o == "DeleteFile"
            tmp == SplitRemoteFileId(id)
            q == Query("trackerQueryStorageUpdate", tmp.parts[1], tmp.parts[2])
        IN  IF SplitFailed(tmp)
              THEN Return(c, o, Call(Nil, id, Nil, NoTracker), FormatReturn(tmp),
                          <<"splitRemoteFileId">>)
            ELSE \E t \in TrackerResults :
                IF TrackerFailed(t)
                  THEN Return(c, o, Call(Nil, id, q, t), <<Nil, t.err>>,
                              <<"splitRemoteFileId", "tracker">>)
                ELSE Lookup(c, o, Call(Nil, id, q, t), <<"splitRemoteFileId", "tracker">>)

DownloadToFile(c) ==
    /\ CanBegin(c)
    /\ \E id \in RemoteFileIds :
        LET o == "DownloadToFile"
            tmp == SplitRemoteFileId(id)
            q == Query("trackerQueryStorageFetch", tmp.parts[1], tmp.parts[2])
        IN  IF SplitFailed(tmp)
              THEN Return(c, o, Call(Nil, id, Nil, NoTracker), FormatReturn(tmp),
                          <<"splitRemoteFileId">>)
            ELSE \E t \in TrackerResults :
                IF TrackerFailed(t)
                  THEN Return(c, o, Call(Nil, id, q, t), <<Nil, t.err>>,
                              <<"splitRemoteFileId", "tracker">>)
                ELSE Lookup(c, o, Call(Nil, id, q, t), <<"splitRemoteFileId", "tracker">>)

DownloadToBuffer(c) ==
    /\ CanBegin(c)
    /\ \E id \in RemoteFileIds :
        LET o == "DownloadToBuffer"
            tmp == SplitRemoteFileId(id)
            q == Query("trackerQueryStorageFetch", tmp.parts[1], tmp.parts[2])
        IN  IF SplitFailed(tmp)
              THEN Return(c, o, Call(Nil, id, Nil, NoTracker), FormatReturn(tmp),
                          <<"splitRemoteFileId">>)
            ELSE \E t \in TrackerResults :
                IF TrackerFailed(t)
                  THEN Return(c, o, Call(Nil, id, q, t), <<Nil, t.err>>,
                              <<"splitRemoteFileId", "tracker">>)
                ELSE Lookup(c, o, Call(Nil, id, q, t), <<"splitRemoteFileId", "tracker">>)

\* the storage-operation executor each operation ends with
Executor(o) ==
    CASE o = "UploadByFilename" -> "storageUploadByFilename"
      [] o = "UploadByBuffer" -> "storageUploadByBuffer"
      [] o = "UploadSlaveByFilename" -> "storageUploadSlaveByFilename"
      [] o = "UploadSlaveByBuffer" -> "storageUploadSlaveByBuffer"
      [] o = "UploadAppenderByFilename" -> "storageUploadAppenderByFilename"
      [] o = "UploadAppenderByBuffer" -> "storageUploadAppenderByBuffer"
      [] o = "DeleteFile" -> "storageDeleteFile"
      [] o = "DownloadToFile" -> "storageDownloadToFile"
      [] o = "DownloadToBuffer" -> "storageDownloadToBuffer"

\* storagePool, err := this.getStoragePool(...); store := &StorageClient{storagePool}:
\* the pool handed to the executor; err is assigned and never read
StorageClient(g) == g[1]

\* return store.storageXxx(tc, storeServ, ...): the executor runs on the pool it
\* was given and its result, a response or an error, is returned as it is
Execute(c) ==
    /\ pc[c] = "got"
    /\ op[c] # NoOp
    /\ \E ok \in BOOLEAN :
        LET store == StorageClient(got[c]) IN
        ret' = [ret EXCEPT ![c] =
                  IF ok THEN <<[kind |-> "response", executor |-> Executor(op[c]), pool |-> store], Nil>>
                        ELSE <<Nil, [kind |-> "err", src |-> Executor(op[c]), pool |-> store]>>]
    /\ log' = [log EXCEPT ![c] = Append(@, Executor(op[c]))]
    /\ pc' = [pc EXCEPT ![c] = "done"]
    /\ UNCHANGED <<regvars, ipAddr, got, op, call, histvars>>


Worker == WorkerSelect \/ WorkerConstruct \/ WorkerSend

\* goroutines calling getStoragePool, and the registry goroutine
Next ==
    \/ \E c \in Procs, a \in Addrs : GetStoragePool(c, a)
    \/ \E c \in Procs : SendRequest(c)
    \/ \E c \in Procs : RecvReply(c)
    \/ WorkerSelect
    \/ WorkerConstruct
    \/ WorkerSend

Spec == Init /\ [][Next]_vars

\* the scheduler is fair to the registry goroutine and to every goroutine that is
\* inside getStoragePool; nothing obliges a goroutine to make a call
Fairness ==
    /\ WF_vars(WorkerSelect)
    /\ WF_vars(WorkerConstruct)
    /\ WF_vars(WorkerSend)
    /\ \A c \in Procs : WF_vars(SendRequest(c)) /\ WF_vars(RecvReply(c))

SpecFair == Spec /\ Fairness

\* as Next, and any goroutine may call Close
NextClose ==
    \/ \E c \in Procs, a \in Addrs : GetStoragePool(c, a)
    \/ \E c \in Procs : SendRequest(c)
    \/ \E c \in Procs : RecvReply(c)
    \/ \E c \in Procs : Close(c)
    \/ WorkerSelect
    \/ WorkerConstruct
    \/ WorkerSend

SpecClose == Init /\ [][NextClose]_vars /\ Fairness

\* a goroutine running the operations of FastDFSClient, the others calling
\* getStoragePool, and the registry goroutine
NextDispatch ==
    \/ \E c \in Dispatchers : UploadByFilename(c)
    \/ \E c \in Dispatchers : UploadByBuffer(c)
    \/ \E c \in Dispatchers : UploadSlaveByFilename(c)
    \/ \E c \in Dispatchers : UploadSlaveByBuffer(c)
    \/ \E c \in Dispatchers : UploadAppenderByFilename(c)
    \/ \E c \in Dispatchers : UploadAppenderByBuffer(c)
    \/ \E c \in Dispatchers : DeleteFile(c)
    \/ \E c \in Dispatchers : DownloadToFile(c)
    \/ \E c \in Dispatchers : DownloadToBuffer(c)
    \/ \E c \in Procs \ Dispatchers, a \in Addrs : GetStoragePool(c, a)
    \/ \E c \in Procs : SendRequest(c)
    \/ \E c \in Procs : RecvReply(c)
    \/ \E c \in Dispatchers : Execute(c)
    \/ WorkerSelect
    \/ WorkerConstruct
    \/ WorkerSend

SpecDispatch == Init /\ [][NextDispatch]_vars

(* ------------------------------ claims --------------------------------- *)
\* the value a getStoragePool call returned: its error, else its pool
Value(g) == IF g[2] # Nil THEN g[2] ELSE g[1]

\* the getStoragePool call of c has returned
GotResult(c) == pc[c] \in {"got", "done"} /\ got[c] # <<Nil, Nil>>

\* the goroutines that have called getStoragePool(a) in their current call
CallersOf(a) == {c \in Procs : ipAddr[c] = a}

\* every goroutine is in its first call at most
FirstRound == \A c \in Procs : calls[c] <= 1

\* the calls of the goroutines of S all overlapped each other
Overlapping(S) == \A c \in S : S \subseteq conc[c]

\* two or more first calls for address a, all overlapping, and no call for a before them
ConcurrentFresh(a) ==
    /\ FirstRound
    /\ Cardinality(CallersOf(a)) >= 2
    /\ Overlapping(CallersOf(a))

\* C1: callers running getStoragePool concurrently with distinct addresses each
\* receive the result the registry produced for their own address.
C1_NoCrossTalk ==
    \A c \in Procs :
        (/\ GotResult(c)
         /\ FirstRound
         /\ \A d \in conc[c] \ {c} : ipAddr[d] # ipAddr[c])
        => Value(got[c]).addr = ipAddr[c]

\* C3: no address ever has two pools: every pool the registry has created for an
\* address is the one the map holds for it, and an entry of the map, once set,
\* is never removed or overwritten.
C3_OnePoolNeverReplaced ==
    /\ [](\A p \in created : storagePoolMap[p.addr] = p)
    /\ [](\A a \in Addrs : storagePoolMap[a] # Nil =>
             storagePoolMap[a] \in created /\ storagePoolMap[a].addr = a)
    /\ [][\A a \in Addrs : storagePoolMap[a] # Nil => storagePoolMap'[a] = storagePoolMap[a]]_vars

\* C3 witness: a goroutine has called twice for the same address; the pool made
\* by the first call is the only one created and the second call returned it
C3_Witness ==
    \E c \in Procs :
        /\ calls[c] = 2
        /\ pc[c] = "got"
        /\ \A a \in Addrs : attempts[a] = IF a = ipAddr[c] THEN 1 ELSE 0
        /\ created = {storagePoolMap[ipAddr[c]]}
        /\ got[c] = <<storagePoolMap[ipAddr[c]], Nil>>

\* C4: concurrent calls for the same never-before-seen address cause exactly one
\* NewConnectionPool attempt for it, whether it succeeds or fails.
C4_SingleAttempt ==
    \A a \in Addrs :
        ConcurrentFresh(a) =>
            /\ attempts[a] <= 1
            /\ (\A c \in CallersOf(a) : GotResult(c)) => attempts[a] = 1

\* C5: concurrent calls for the same never-before-seen address all return the
\* same pool, or all return an error and no pool is recorded for the address.
C5_SameOutcome ==
    \A a \in Addrs :
        (ConcurrentFresh(a) /\ \A c \in CallersOf(a) : GotResult(c)) =>
            \/ \E p \in created : \A c \in CallersOf(a) : got[c] = <<p, Nil>>
            \/ /\ \A c \in CallersOf(a) : got[c][2] # Nil
               /\ storagePoolMap[a] = Nil

\* the registry goroutine takes a request for address a in this step
Takes(a) ==
    /\ wpc = "select"
    /\ wpc' # "select"
    /\ Head(storagePoolChan).addr = a

\* C6: once a pool is recorded for an address, the registry answers every request
\* for that address with the recorded pool and makes no further NewConnectionPool
\* attempt for that address.
C6_IdempotentReuse ==
    [][\A a \in Addrs : storagePoolMap[a] # Nil =>
          /\ attempts'[a] = attempts[a]
          /\ Takes(a) => (wpc' = "send" /\ wres'.val = storagePoolMap[a])]_vars

\* C6 witness: two goroutines were answered with the same recorded pool, made by
\* the only attempt for its address, and both calls have returned
C6_Witness ==
    \E c \in Procs, d \in Procs :
        /\ c # d
        /\ pc[c] = "got"
        /\ pc[d] = "got"
        /\ ipAddr[c] = ipAddr[d]
        /\ IsPool(answer[c])
        /\ answer[c] = answer[d]
        /\ attempts[ipAddr[c]] = 1

\* C7: a failed construction is not remembered: a request for an address made
\* after a failed construction for it, while no pool is recorded, is answered
\* from a NewConnectionPool attempt made after the request began, never with the
\* old error; when that attempt succeeds the pool is recorded and is the answer;
\* and a call that no other call overlaps returns exactly that answer.
C7_RetryAfterFailure ==
    \A c \in Procs :
        (seen[c] > 0 /\ answer[c] # Nil) =>
            /\ answer[c].addr = ipAddr[c]
            /\ answer[c].id > seen[c]
            /\ IsPool(answer[c]) => storagePoolMap[ipAddr[c]] = answer[c]
            /\ (GotResult(c) /\ conc[c] = {c}) => Value(got[c]) = answer[c]

\* C7 witness: a call made alone after a failed construction for its address
\* has returned the pool of a later attempt
C7_Witness ==
    \E c \in Procs :
        /\ seen[c] > 0
        /\ conc[c] = {c}
        /\ pc[c] = "got"
        /\ IsPool(got[c][1])
        /\ got[c][1].id > seen[c]
        /\ storagePoolMap[ipAddr[c]] = got[c][1]

FilenameOps == {"UploadByFilename", "UploadSlaveByFilename", "UploadAppenderByFilename"}
IdOps ==
    {"UploadSlaveByFilename", "UploadSlaveByBuffer", "DeleteFile", "DownloadToFile",
     "DownloadToBuffer"}
Executors ==
    {"storageUploadByFilename", "storageUploadByBuffer", "storageUploadSlaveByFilename",
     "storageUploadSlaveByBuffer", "storageUploadAppenderByFilename",
     "storageUploadAppenderByBuffer", "storageDeleteFile", "storageDownloadToFile",
     "storageDownloadToBuffer"}

\* the steps of the current operation of c
Steps(c) == {log[c][i] : i \in 1 .. Len(log[c])}

\* steps that reach the tracker, the registry or a storage server
NetworkSteps == {"tracker", "getStoragePool"} \cup Executors

\* the identifier is "<group>/<remoteFilename>" with both parts non-empty, the
\* group being what precedes the first separator
WellFormed(id) ==
    \E g \in 1 .. Len(id) :
        /\ id[g] # "/"
        /\ g + 1 < Len(id)
        /\ id[g + 1] = "/"
        /\ \A j \in 1 .. g : id[j] # "/"

\* C2: when getStoragePool returns an error, the operation returns that error and
\* no storage executor is invoked.
C2_PoolErrorFailFast ==
    \A c \in Procs :
        (pc[c] = "done" /\ got[c][2] # Nil) =>
            /\ ret[c] = <<Nil, got[c][2]>>
            /\ Steps(c) \cap Executors = {}

\* the operation of c takes an identifier, the identifier is malformed, and the
\* operation got as far as parsing it
MalformedCall(c) ==
    /\ op[c] \in IdOps
    /\ ~WellFormed(call[c].remoteFileId)
    /\ call[c].fileErr = Nil

\* C8: with a malformed identifier the operation returns without a tracker query,
\* without a request to the registry and without a storage executor call.
C8_MalformedNoNetwork ==
    \A c \in Procs :
        MalformedCall(c) =>
            /\ pc[c] = "done"
            /\ Steps(c) \cap NetworkSteps = {}
            /\ call[c].query = Nil
            /\ ipAddr[c] = NoAddr
            /\ \A i \in 1 .. Len(storagePoolChan) :
                  ~(storagePoolChan[i].from = c /\ storagePoolChan[i].n = calls[c])

\* C8 witness: DeleteFile of an identifier with no separator has returned
C8_Witness ==
    \E c \in Procs :
        /\ op[c] = "DeleteFile"
        /\ pc[c] = "done"
        /\ call[c].remoteFileId = <<"g">>
        /\ log[c] = <<"splitRemoteFileId">>

\* C9 as stated: every operation that takes an identifier returns the format
\* error whenever the identifier is malformed.
C9_MalformedFormatError ==
    \A c \in Procs :
        (op[c] \in IdOps /\ pc[c] = "done" /\ ~WellFormed(call[c].remoteFileId)) =>
            /\ ret[c] = <<Nil, FormatErr>>
            /\ "tracker" \notin Steps(c)

\* C9 amended: with a malformed identifier the operation returns no value and a
\* non-nil error and never reaches the tracker; the error is the format error,
\* except that UploadSlaveByFilename whose local file check fails returns that
\* check's error, the check coming before the parsing.
C9_MalformedIsError ==
    \A c \in Procs :
        (op[c] \in IdOps /\ pc[c] = "done" /\ ~WellFormed(call[c].remoteFileId)) =>
            /\ ret[c][1] = Nil
            /\ ret[c][2] # Nil
            /\ "tracker" \notin Steps(c)
            /\ IF op[c] = "UploadSlaveByFilename" /\ call[c].fileErr # Nil
                 THEN ret[c][2] = Uploading(call[c].fileErr)
                 ELSE ret[c][2] = FormatErr

\* C9 witness: UploadSlaveByBuffer of an identifier with an empty file name has
\* returned the format error
C9_Witness ==
    \E c \in Procs :
        /\ op[c] = "UploadSlaveByBuffer"
        /\ pc[c] = "done"
        /\ call[c].remoteFileId = <<"g", "/">>
        /\ ret[c] = <<Nil, FormatErr>>

\* C10: when the local file check of a filename upload fails, the operation
\* returns an error whose message is the check's message followed by
\* "(uploading)" and makes no other step; the check is the first step of every
\* filename upload, before the identifier is parsed.
C10_PreflightFirst ==
    \A c \in Procs :
        op[c] \in FilenameOps =>
            /\ log[c] # <<>>
            /\ log[c][1] = "fdfsCheckFile"
            /\ call[c].fileErr # Nil =>
                /\ pc[c] = "done"
                /\ ret[c][1] = Nil
                /\ ret[c][2].kind = "err"
                /\ ret[c][2].msg \in {"no such file(uploading)", "is a directory(uploading)"}
                /\ ret[c][2].msg = call[c].fileErr.msg \o "(uploading)"
                /\ log[c] = <<"fdfsCheckFile">>
                /\ ipAddr[c] = NoAddr

\* C10 witness: UploadSlaveByFilename with an unreadable file and a malformed
\* identifier has returned the file check's error
C10_Witness ==
    \E c \in Procs :
        /\ op[c] = "UploadSlaveByFilename"
        /\ pc[c] = "done"
        /\ call[c].fileErr # Nil
        /\ ~WellFormed(call[c].remoteFileId)
        /\ ret[c][2].msg = "no such file(uploading)"

\* C11: a call of Close eventually returns, the quit signal delivered, and the
\* registry goroutine then serves no more requests.
C11_CloseReturns ==
    \A c \in Procs : (pc[c] = "close") ~> (pc[c] = "closed")

\* C13: with a fair scheduler and NewConnectionPool returning, every
\* getStoragePool call in progress eventually returns.
C13_LookupCompletes ==
    \A c \in Procs : InGetStoragePool(c) ~> (pc[c] = "got")

\* C13 witness: two overlapping calls have both returned
C13_Witness ==
    /\ \A c \in Procs : pc[c] = "got" /\ calls[c] = 1
    /\ Overlapping(Procs)
    /\ storagePoolChan = <<>>
    /\ fetchStoragePoolChan = <<>>

\* the requests of the current call of c that are on their way to the registry
\* or held by it
RequestsOf(c) ==
    {storagePoolChan[i] : i \in {j \in 1 .. Len(storagePoolChan) :
                                   storagePoolChan[j].from = c /\ storagePoolChan[j].n = calls[c]}}
        \cup (IF wspd # Nil /\ wspd.from = c /\ wspd.n = calls[c] THEN {wspd} ELSE {})

\* the tracker query of the current operation of c returned an error
ResolveFailed(c) ==
    /\ op[c] # NoOp
    /\ call[c].query # Nil
    /\ call[c].storeServ = Nil

\* C12: when the tracker query returns an error the operation returns that error,
\* sends no request to the registry and invokes no storage executor.
C12_ResolveErrorStops ==
    \A c \in Procs :
        ResolveFailed(c) =>
            /\ pc[c] = "done"
            /\ ret[c] = <<Nil, TrackerErr>>
            /\ log[c][Len(log[c])] = "tracker"
            /\ Steps(c) \cap ({"getStoragePool"} \cup Executors) = {}
            /\ ipAddr[c] = NoAddr
            /\ RequestsOf(c) = {}

\* C12 witness: UploadSlaveByFilename of a readable file and a well-formed
\* identifier has returned the tracker's error
C12_Witness ==
    \E c \in Procs :
        /\ op[c] = "UploadSlaveByFilename"
        /\ pc[c] = "done"
        /\ call[c].remoteFileId = <<"g", "/", "f", "/", "x">>
        /\ call[c].fileErr = Nil
        /\ ret[c] = <<Nil, TrackerErr>>

\* id is group, the separator, file, and the group holds no separator
Splits(id, group, file) ==
    /\ id = group \o <<"/">> \o file
    /\ \A j \in 1 .. Len(group) : group[j] # "/"

\* C18: the four plain uploads resolve with the without-group store query, the
\* slave uploads with the with-group store query on the identifier's group,
\* DeleteFile with the update query and the downloads with the fetch query, both
\* on the identifier's group and file name; and the registry is asked for the
\* address of the descriptor the tracker returned.
C18_QueryMapping ==
    \A c \in Procs :
        (op[c] # NoOp /\ call[c].query # Nil) =>
            LET q == call[c].query
                id == call[c].remoteFileId
            IN  /\ CASE op[c] \in {"UploadByFilename", "UploadByBuffer",
                                   "UploadAppenderByFilename", "UploadAppenderByBuffer"} ->
                            /\ q.kind = "trackerQueryStorageStorWithoutGroup"
                            /\ q.group = <<>>
                            /\ q.file = <<>>
                      [] op[c] \in {"UploadSlaveByFilename", "UploadSlaveByBuffer"} ->
                            /\ q.kind = "trackerQueryStorageStorWithGroup"
                            /\ q.file = <<>>
                            /\ \E i \in 1 .. Len(id) : Splits(id, q.group, SubSeq(id, i, Len(id)))
                      [] op[c] = "DeleteFile" ->
                            /\ q.kind = "trackerQueryStorageUpdate"
                            /\ Splits(id, q.group, q.file)
                      [] op[c] \in {"DownloadToFile", "DownloadToBuffer"} ->
                            /\ q.kind = "trackerQueryStorageFetch"
                            /\ Splits(id, q.group, q.file)
                /\ call[c].storeServ # Nil =>
                      /\ ipAddr[c] = call[c].storeServ.ipAddr
                      /\ \A r \in RequestsOf(c) : r.addr = call[c].storeServ.ipAddr
                /\ call[c].storeServ = Nil => ipAddr[c] = NoAddr

\* C18 witness: DownloadToBuffer has resolved "g/f/x" with the fetch query and
\* its request for the descriptor's address is on its way to the registry
C18_Witness ==
    \E c \in Procs :
        /\ op[c] = "DownloadToBuffer"
        /\ pc[c] = "recv"
        /\ call[c].query = [kind |-> "trackerQueryStorageFetch", group |-> <<"g">>,
                            file |-> <<"f", "/", "x">>]
        /\ \E r \in RequestsOf(c) : r.addr = call[c].storeServ.ipAddr

C15_FailureLeavesMap ==
    [][/\ (wpc = "construct" /\ wpc' = "send" /\ IsErr(wres'.val)) =>
            storagePoolMap' = storagePoolMap
       /\ \A a \in Addrs : storagePoolMap'[a] = Nil \/ IsPool(storagePoolMap'[a])]_vars

\* C15 witness: after a failed construction for one address, which left no
\* entry, the registry has served a request for another address with a new pool
\* and is back at its select
C15_Witness ==
    \E a \in Addrs, b \in Addrs :
        /\ a # b
        /\ attempts[a] = 1
        /\ storagePoolMap[a] = Nil
        /\ attempts[b] = 1
        /\ IsPool(storagePoolMap[b])
        /\ wpc = "select"
        /\ fetchStoragePoolChan = <<>>

\* C16: storagePoolMap changes only in the registry's step that follows a
\* successful NewConnectionPool: no goroutine's step of getStoragePool or of a
\* dispatch operation changes it, and the change adds the new pool for the
\* requested address, which had no entry, and touches no other entry.
C16_SingleWriter ==
    [][storagePoolMap' # storagePoolMap =>
          /\ wpc = "construct"
          /\ wpc' = "send"
          /\ pc' = pc
          /\ storagePoolMap[wspd.addr] = Nil
          /\ IsPool(wres'.val)
          /\ wres'.val.addr = wspd.addr
          /\ storagePoolMap' = [storagePoolMap EXCEPT ![wspd.addr] = wres'.val]]_vars

\* C16 witness: a dispatch operation has finished on a pool the registry recorded
\* while the map already held the pool of another address
C16_Witness ==
    \E c \in Procs :
        /\ pc[c] = "done"
        /\ IsPool(got[c][1])
        /\ \A a \in Addrs : IsPool(storagePoolMap[a])
        /\ storagePoolMap[ipAddr[c]].id = 1

\* C17: the registry handles one request at a time: it takes a request only when
\* it holds none and has no reply to send, each NewConnectionPool is made for
\* the one request it holds and is followed by the sending of its reply, and the
\* reply is sent before the registry returns to its select.
C17_OneInFlight ==
    [][/\ Len(storagePoolChan') < Len(storagePoolChan) =>
            /\ wpc = "select"
            /\ wspd = Nil
            /\ wres = Nil
            /\ storagePoolChan' = Tail(storagePoolChan)
       /\ attempts' # attempts =>
            /\ wpc = "construct"
            /\ wspd # Nil
            /\ attempts' = [attempts EXCEPT ![wspd.addr] = @ + 1]
            /\ wpc' = "send"
            /\ wspd' = Nil
       /\ wpc' = "construct" => (wspd' # Nil /\ wres' = Nil)
       /\ (wpc = "send" /\ wpc' # "send") =>
            /\ wpc' = "select"
            /\ fetchStoragePoolChan' = Append(fetchStoragePoolChan, wres)]_vars

\* C17 witness: a second request for the address under construction waits in
\* storagePoolChan while the registry is inside NewConnectionPool for it
C17_Witness ==
    /\ wpc = "construct"
    /\ Len(storagePoolChan) = 1
    /\ storagePoolChan[1].addr = wspd.addr
    /\ attempts[wspd.addr] = 0

\* C19: a call that no other call overlaps returns what the registry produced
\* for its own request: the pool recorded for its address, or the error of a
\* construction for its address.
C19_SequentialOwnOutcome ==
    \A c \in Procs :
        (GotResult(c) /\ conc[c] = {c}) =>
            /\ answer[c] # Nil
            /\ Value(got[c]) = answer[c]
            /\ answer[c].addr = ipAddr[c]
            /\ IsPool(answer[c]) =>
                  (got[c] = <<answer[c], Nil>> /\ storagePoolMap[ipAddr[c]] = answer[c])
            /\ IsErr(answer[c]) =>
                  (got[c] = <<Nil, answer[c]>> /\ answer[c].src = "NewConnectionPool")

\* C19 witness: two calls made one after the other for different addresses have
\* returned, one its pool and the other its construction error
C19_Witness ==
    \E c \in Procs, d \in Procs :
        /\ c # d
        /\ pc[c] = "got"
        /\ pc[d] = "got"
        /\ conc[c] = {c}
        /\ conc[d] = {d}
        /\ ipAddr[c] # ipAddr[d]
        /\ IsPool(got[c][1])
        /\ got[d][2] # Nil

\* the goroutines blocked on the receive from fetchStoragePoolChan
Waiting == {c \in Procs : pc[c] = "recv"}

\* C20: every request sent is waiting in storagePoolChan, held by the registry,
\* or answered by a reply in fetchStoragePoolChan that a waiting caller has yet
\* to take; so with no call in progress both channels are empty and the registry
\* is idle, and the replies buffered never outnumber the callers waiting.
C20_RequestReplyBalance ==
    /\ Cardinality(Waiting) =
          Len(storagePoolChan) + (IF wpc = "select" THEN 0 ELSE 1) + Len(fetchStoragePoolChan)
    /\ Len(fetchStoragePoolChan) <= Cardinality(Waiting)
    /\ (\A c \in Procs : ~InGetStoragePool(c)) =>
          /\ storagePoolChan = <<>>
          /\ fetchStoragePoolChan = <<>>
          /\ wpc = "select"
          /\ wres = Nil

\* C20 witness: one goroutine has made two calls, both have returned, and
\* nothing is left in either channel
C20_Witness ==
    \E c \in Procs :
        /\ calls[c] = 2
        /\ pc[c] = "got"
        /\ \A d \in Procs \ {c} : pc[d] = "idle"
        /\ storagePoolChan = <<>>
        /\ fetchStoragePoolChan = <<>>
====
